---- MODULE Spec2Model ----
(***************************************************************************)
(* Model of the publication tooling in scripts/:                           *)
(*   parse_latex_publications.py  (item loop, brace scan, clean_tex,       *)
(*                                 year / doi / note extraction)           *)
(*   clean_publications.py        (year patch, prune, re-sort)             *)
(*   scrape_hchuang.py            (scrape_publications)                    *)
(*                                                                         *)
(* Text is a sequence of one-character strings.  Three glyphs outside      *)
(* ASCII are written as named elements: "dagger", "ldquo", "rdquo".        *)
(* Offsets into text are 0-based as in the Python source; s[i + 1] is the  *)
(* character at offset i.                                                  *)
(***************************************************************************)
EXTENDS Integers, Sequences, FiniteSets, TLC

VARIABLES
    raw_items,      \* parse: the \item blocks of the enumerate block
    item_idx,       \* parse: number of loop iterations of `for raw_item` done
    current_type,   \* parse: section state carried between iterations
    publications,   \* parse: the list being built
    origin,         \* parse: origin[k] = index of the item publications[k] came from
    parse_pc,       \* parse: "loop" | "done"
    scan_text,      \* brace scan applied on its own: the text
    scan_out,       \* brace scan applied on its own: Done(loop exit state), or Pending
    tex_in,         \* clean_tex applied on its own: the input
    tex_once,       \* Done(clean_tex(tex_in)), or Pending
    tex_twice,      \* Done(clean_tex(clean_tex(tex_in))), or Pending
    json_file,      \* clean_publications: content of publications.json
    maint_log,      \* clean_publications: the counts printed by the runs so far
    page,           \* scrape_publications: the header nodes of the fetched page
    items           \* scrape_publications: Done(the returned list), or Pending

vars == <<raw_items, item_idx, current_type, publications, origin, parse_pc,
          scan_text, scan_out, tex_in, tex_once, tex_twice,
          json_file, maint_log, page, items>>

parse_vars  == <<raw_items, item_idx, current_type, publications, origin, parse_pc>>
scan_vars   == <<scan_text, scan_out>>
tex_vars    == <<tex_in, tex_once, tex_twice>>
maint_vars  == <<json_file, maint_log>>
scrape_vars == <<page, items>>

\* a result not computed yet is <<>>, a computed result v is <<v>>
Pending == <<>>

Done(v) == <<v>>

(***************************************************************************)
(* Characters and the str methods the scripts use.                         *)
(***************************************************************************)
Whitespace == {" ", "\n", "\t"}

Digits == {"0", "1", "2", "3", "4", "5", "6", "7", "8", "9"}

DigitSeq == <<"0", "1", "2", "3", "4", "5", "6", "7", "8", "9">>

UpperSeq == <<"A", "B", "C", "D", "E", "F", "G", "H", "I", "J", "K", "L", "M",
              "N", "O", "P", "Q", "R", "S", "T", "U", "V", "W", "X", "Y", "Z">>

LowerSeq == <<"a", "b", "c", "d", "e", "f", "g", "h", "i", "j", "k", "l", "m",
              "n", "o", "p", "q", "r", "s", "t", "u", "v", "w", "x", "y", "z">>

WordChars == Digits \cup {UpperSeq[k] : k \in 1..26} \cup {LowerSeq[k] : k \in 1..26} \cup {"_"}

\* int() of one decimal digit
DigitVal(c) == (CHOOSE k \in 1..10 : DigitSeq[k] = c) - 1

\* int() of a run of decimal digits
RECURSIVE IntOf(_)
IntOf(ds) ==
    IF ds = <<>> THEN 0
    ELSE 10 * IntOf(SubSeq(ds, 1, Len(ds) - 1)) + DigitVal(ds[Len(ds)])

LowerOf == [c \in {UpperSeq[k] : k \in 1..26} |->
               LowerSeq[CHOOSE k \in 1..26 : UpperSeq[k] = c]]

LowerChar(c) == IF c \in DOMAIN LowerOf THEN LowerOf[c] ELSE c

\* str.lower()
Lower(s) == SubSeq([k \in 1..Len(s) |-> LowerChar(s[k])], 1, Len(s))

\* s[from:] with a 0-based offset
Slice(s, from) == SubSeq(s, from + 1, Len(s))

\* s[:n]
Prefix(s, n) == SubSeq(s, 1, IF n < Len(s) THEN n ELSE Len(s))

RECURSIVE LStripSet(_, _)
LStripSet(s, cs) ==
    IF s # <<>> /\ s[1] \in cs THEN LStripSet(Tail(s), cs) ELSE s

RECURSIVE RStripSet(_, _)
RStripSet(s, cs) ==
    IF s # <<>> /\ s[Len(s)] \in cs THEN RStripSet(SubSeq(s, 1, Len(s) - 1), cs) ELSE s

\* str.strip(), str.strip(chars), str.rstrip(chars)
Strip(s) == RStripSet(LStripSet(s, Whitespace), Whitespace)

StripChars(s, cs) == RStripSet(LStripSet(s, cs), cs)

\* the least element of a non-empty set of integers
Least(S) == CHOOSE i \in S : \A j \in S : i <= j

\* sub occurs in s at offset i
StartsAt(s, sub, i) ==
    /\ i + Len(sub) <= Len(s)
    /\ \A k \in 1..Len(sub) : s[i + k] = sub[k]

\* sub in s
Contains(s, sub) == \E i \in 0..Len(s) : StartsAt(s, sub, i)

\* s.find(sub, from): least offset at or after from, -1 when absent
FindFrom(s, sub, from) ==
    LET occ == {i \in from..Len(s) : StartsAt(s, sub, i)}
    IN  IF occ = {} THEN -1 ELSE Least(occ)

\* s[from:].replace(old, ''): non-overlapping occurrences, left to right
\* (old is never empty)
RECURSIVE RemoveFrom(_, _, _)
RemoveFrom(s, old, from) ==
    LET i == FindFrom(s, old, from)
    IN  IF i = -1 THEN Slice(s, from)
        ELSE SubSeq(s, from + 1, i) \o RemoveFrom(s, old, i + Len(old))

RemoveAll(s, old) == IF s = <<>> THEN <<>> ELSE RemoveFrom(s, old, 0)

(***************************************************************************)
(* The fragment of re the scripts use.  A pattern is a sequence of atoms   *)
(* [cs, neg, q]: a character class (cs, complemented when neg) with        *)
(* quantifier "1", "+" or "*".  In every pattern of the scripts a repeated *)
(* class is followed by a disjoint class or by the end of the pattern, so  *)
(* greedy matching never has to give characters back.  A regex is a        *)
(* sequence of patterns tried in order (the alternation a|b).              *)
(***************************************************************************)
One(cs)     == [cs |-> cs, neg |-> FALSE, q |-> "1"]
Plus(cs)    == [cs |-> cs, neg |-> FALSE, q |-> "+"]
Star(cs)    == [cs |-> cs, neg |-> FALSE, q |-> "*"]
PlusNot(cs) == [cs |-> cs, neg |-> TRUE, q |-> "+"]

Lit(s) == [k \in 1..Len(s) |-> One({s[k]})]

\* both cases of every letter of s (re.IGNORECASE on a literal)
LitNoCase(s) ==
    [k \in 1..Len(s) |-> One({c \in WordChars \cup {s[k]} : LowerChar(c) = LowerChar(s[k])})]

Hit(a, c) == (c \in a.cs) # a.neg

\* offset of the first character at or after offset i that atom a rejects
RunEnd(a, s, i) ==
    Least({j \in i..Len(s) : j = Len(s) \/ ~Hit(a, s[j + 1])})

\* end offset of the match of atoms k.. of pat at offset i, -1 when none
RECURSIVE MatchEnd(_, _, _, _)
MatchEnd(pat, s, i, k) ==
    IF k > Len(pat) THEN i
    ELSE IF pat[k].q = "1"
         THEN IF i < Len(s) /\ Hit(pat[k], s[i + 1])
              THEN MatchEnd(pat, s, i + 1, k + 1)
              ELSE -1
         ELSE LET j == RunEnd(pat[k], s, i)
              IN  IF pat[k].q = "+" /\ j = i THEN -1 ELSE MatchEnd(pat, s, j, k + 1)

\* the first alternative of regex re that matches at offset i, 0 when none
AltAt(re, s, i) ==
    IF \E n \in 1..Len(re) : MatchEnd(re[n], s, i, 1) # -1
    THEN CHOOSE n \in 1..Len(re) :
            /\ MatchEnd(re[n], s, i, 1) # -1
            /\ \A m \in 1..(n - 1) : MatchEnd(re[m], s, i, 1) = -1
    ELSE 0

MatchesAt(re, s, i) == AltAt(re, s, i) # 0

EndAt(re, s, i) == MatchEnd(re[AltAt(re, s, i)], s, i, 1)

\* re.search(re, s): [start, end, alt] of the leftmost match, NoMatch when none
NoMatch == [start |-> -1, end |-> -1, alt |-> 0]

\* the characters a match of re can start with (every regex of the scripts
\* starts with a plain character class taken at least once)
FirstChars(re) == UNION {re[n][1].cs : n \in 1..Len(re)}

\* the offsets at or after from where re matches
HitsFrom(re, s, from, fc) ==
    {i \in from..(Len(s) - 1) : s[i + 1] \in fc /\ MatchesAt(re, s, i)}

MatchOf(re, s, hits) ==
    IF hits = {} THEN NoMatch
    ELSE [start |-> Least(hits), end |-> EndAt(re, s, Least(hits)),
          alt |-> AltAt(re, s, Least(hits))]

SearchFrom(re, s, from) == MatchOf(re, s, HitsFrom(re, s, from, FirstChars(re)))

Search(re, s) == SearchFrom(re, s, 0)

\* re.sub(re, repl, s) from offset i on: the matches are taken left to right,
\* each search resuming where the previous match ended; no pattern of the
\* scripts matches the empty string
RECURSIVE SubFrom(_, _, _, _)
SubFrom(re, repl, s, i) ==
    LET m == SearchFrom(re, s, i)
    IN  IF m.alt = 0 THEN Slice(s, i)
        ELSE SubSeq(s, i + 1, m.start) \o repl \o SubFrom(re, repl, s, m.end)

Sub(re, repl, s) == IF s = <<>> THEN <<>> ELSE SubFrom(re, repl, s, 0)

(***************************************************************************)
(* clean_tex                                                               *)
(***************************************************************************)
ReBf       == << Lit(<<"\\", "b", "f">>) \o <<Plus(Whitespace)>> >>
ReIt       == << Lit(<<"\\", "i", "t">>) \o <<Plus(Whitespace)>> >>
ReTextsl   == << Lit(<<"\\", "t", "e", "x", "t", "s", "l">>) >>
ReMathDag  == << Lit(<<"$", "^", "\\", "d", "a", "g", "g", "e", "r", "$">>) >>
ReSupDag   == << Lit(<<"^", "\\", "d", "a", "g", "g", "e", "r">>) >>
ReDag      == << Lit(<<"\\", "d", "a", "g", "g", "e", "r">>) >>
ReBrace    == << <<One({"{", "}"})>> >>
ReMathSup  == << <<One({"$"}), One({"^"}), One({"*"}), One({"$"})>>,
                 <<One({"$"}), One({"^"}), Plus(Digits), One({"$"})>> >>
ReSup      == << <<One({"^"}), One({"*"})>>,
                 <<One({"^"}), Plus(Digits)>> >>
ReBackslash == << <<One({"\\"})>> >>
ReSpaces   == << <<Plus(Whitespace)>> >>

Dagger == <<"dagger">>

\* lines 192-194: the style macros
StyleRemoved(text) == Sub(ReTextsl, <<>>, Sub(ReIt, <<>>, Sub(ReBf, <<>>, text)))

\* lines 196-198: the three spellings of the dagger, most specific first
DaggerReplaced(text) == Sub(ReDag, Dagger, Sub(ReSupDag, Dagger, Sub(ReMathDag, Dagger, text)))

\* lines 199-201: braces, then math superscripts, then bare superscripts
MarkupRemoved(text) == Sub(ReSup, <<>>, Sub(ReMathSup, <<>>, Sub(ReBrace, <<>>, text)))

\* Tidied without the final strip()
Tidied_NoStrip(text) == Sub(ReSpaces, <<" ">>, Sub(ReBackslash, <<>>, text))

\* lines 202-204: backslashes, whitespace runs, strip
Tidied(text) == Strip(Sub(ReSpaces, <<" ">>, Sub(ReBackslash, <<>>, text)))

clean_tex(text) == Tidied(MarkupRemoved(DaggerReplaced(StyleRemoved(text))))

(***************************************************************************)
(* parse_latex_publications: one iteration of `for raw_item in raw_items`  *)
(***************************************************************************)
HeaderMarker == <<"B", "o", "o", "k", "s", " ", "\\", "&", " ",
                  "C", "h", "a", "p", "t", "e", "r", "s">>

HeaderLabel == <<"{", "\\", "b", "f", " ", "B", "o", "o", "k", "s", " ", "\\", "&", " ",
                 "C", "h", "a", "p", "t", "e", "r", "s", ":", "}">>

Vspace == <<"\\", "v", "s", "p", "a", "c", "e", "{", "2", "4", "p", "t", "}">>

Hspace == <<"\\", "h", "s", "p", "a", "c", "e", "{", "-", "0", ".", "4", "i", "n", "}">>

HasHeader(raw_item) == Contains(raw_item, HeaderMarker)

\* raw_item as rebound by the header branch and by raw_item.strip()
Stripped(raw_item) ==
    IF HasHeader(raw_item)
    THEN Strip(RemoveAll(RemoveAll(RemoveAll(raw_item, HeaderLabel), Vspace), Hspace))
    ELSE Strip(raw_item)

next_type(raw_item, cur) == IF HasHeader(raw_item) THEN "book" ELSE cur

ReMacro == << Lit(<<"\\", "m", "y", "p", "u", "b">>),
              Lit(<<"\\", "m", "y", "b", "p", "u", "b">>),
              Lit(<<"\\", "n", "e", "w", "p", "u", "b">>),
              Lit(<<"\\", "p", "u", "b">>) >>

NewpubAlt == 3

macro_match(text) == Search(ReMacro, text)

is_newpub(text) == macro_match(text).alt = NewpubAlt

\* ScanStart that ignores where the macro name ends
ScanStart_Zero(text) == 0

\* scan_idx before the while loop
ScanStart(text) ==
    LET m == macro_match(text)
    IN  IF m.alt # 0 THEN m.end ELSE 0

ScanInit(start) ==
    [args |-> <<>>, depth |-> 0, current_arg |-> <<>>, in_arg |-> FALSE,
     arg_count |-> 0, scan_idx |-> start]

\* ScanChar that drops nested braces instead of keeping them in the argument
ScanChar_DropInner(st, char) ==
    IF char = "{"
    THEN [st EXCEPT !.in_arg = IF st.depth = 0 THEN TRUE ELSE @,
                    !.depth = @ + 1,
                    !.scan_idx = @ + 1]
    ELSE IF char = "}"
    THEN IF st.depth - 1 = 0
         THEN [st EXCEPT !.depth = @ - 1,
                         !.in_arg = FALSE,
                         !.args = Append(@, Strip(st.current_arg)),
                         !.current_arg = <<>>,
                         !.arg_count = @ + 1,
                         !.scan_idx = @ + 1]
         ELSE [st EXCEPT !.depth = @ - 1,
                         !.scan_idx = @ + 1]
    ELSE [st EXCEPT !.current_arg = IF st.in_arg THEN Append(@, char) ELSE @,
                    !.scan_idx = @ + 1]

\* one iteration of the while loop on character char
ScanChar(st, char) ==
    IF char = "{"
    THEN [st EXCEPT !.in_arg = IF st.depth = 0 THEN TRUE ELSE @,
                    !.current_arg = IF st.depth = 0 THEN @ ELSE Append(@, char),
                    !.depth = @ + 1,
                    !.scan_idx = @ + 1]
    ELSE IF char = "}"
    THEN IF st.depth - 1 = 0
         THEN [st EXCEPT !.depth = @ - 1,
                         !.in_arg = FALSE,
                         !.args = Append(@, Strip(st.current_arg)),
                         !.current_arg = <<>>,
                         !.arg_count = @ + 1,
                         !.scan_idx = @ + 1]
         ELSE [st EXCEPT !.depth = @ - 1,
                         !.current_arg = Append(@, char),
                         !.scan_idx = @ + 1]
    ELSE [st EXCEPT !.current_arg = IF st.in_arg THEN Append(@, char) ELSE @,
                    !.scan_idx = @ + 1]

\* the while loop's test followed by its body; once the test fails the state
\* is final
ScanStep(text, st) ==
    IF st.scan_idx < Len(text) /\ st.arg_count < 3
    THEN ScanChar(st, text[st.scan_idx + 1])
    ELSE st

\* n times ScanStep.  The run is split in two halves, and the state after
\* the first half is computed before the second half starts, which keeps the
\* evaluation shallow on long items.
RECURSIVE ScanLoop(_, _, _)
ScanLoop(text, st, n) ==
    IF n = 0 THEN st
    ELSE IF n = 1 THEN ScanStep(text, st)
    ELSE LET half == ScanLoop(text, st, n \div 2)
         IN  IF half.arg_count < 3 THEN ScanLoop(text, half, n - (n \div 2)) ELSE half

\* the brace scan of text from offset start: the state when the loop exits,
\* which it does within Len(text) iterations
Scan(text, start) == ScanLoop(text, ScanInit(start), Len(text))

ReYear == << <<One({"("}), One(Digits), One(Digits), One(Digits), One(Digits), One({")"})>> >>

\* int(year_match.group(1)) of the first match in s; 0 stands for `no match`
\* only where the caller has tested HasYear
HasYear(s) == Search(ReYear, s).alt # 0

YearIn(s) ==
    LET m == Search(ReYear, s)
    IN  IntOf(SubSeq(s, m.start + 2, m.start + 5))

Accepted == <<"a", "c", "c", "e", "p", "t", "e", "d">>

InPress == <<"i", "n", " ", "p", "r", "e", "s", "s">>

FallbackYear == 2025

\* year_of that looks in the tail before the venue
year_of_TailFirst(journal_info, rest_of_item) ==
    LET year == IF HasYear(rest_of_item) THEN YearIn(rest_of_item)
                ELSE IF HasYear(journal_info) THEN YearIn(journal_info)
                ELSE 0
        low  == Lower(journal_info)
    IN  IF (Contains(low, Accepted) \/ Contains(low, InPress)) /\ year = 0
        THEN FallbackYear
        ELSE year

year_of(journal_info, rest_of_item) ==
    LET year == IF HasYear(journal_info) THEN YearIn(journal_info)
                ELSE IF HasYear(rest_of_item) THEN YearIn(rest_of_item)
                ELSE 0
        low  == Lower(journal_info)
    IN  IF (Contains(low, Accepted) \/ Contains(low, InPress)) /\ year = 0
        THEN FallbackYear
        ELSE year

DoiMarker == <<"d", "o", "i", ":">>

ReDoi == << LitNoCase(DoiMarker) \o <<Star(Whitespace), PlusNot(Whitespace)>> >>

\* doi_match.group(1): the \S+ run after the marker and its whitespace
DoiToken(s, m) ==
    SubSeq(s, RunEnd(Star(Whitespace), s, m.start + Len(DoiMarker)) + 1, m.end)

\* doi_of without the rstrip('}')
doi_of_Raw(rest_of_item) ==
    LET m == Search(ReDoi, rest_of_item)
    IN  IF m.alt # 0 THEN DoiToken(rest_of_item, m) ELSE <<>>

doi_of(rest_of_item) ==
    LET m == Search(ReDoi, rest_of_item)
    IN  IF m.alt # 0
        THEN RStripSet(DoiToken(rest_of_item, m), {"}"})
        ELSE <<>>

IFMarker == <<"I", "F", ":">>

ReIF == << Lit(IFMarker) \o <<Star(Whitespace), Plus(Digits \cup {"."})>> >>

note_of(rest_of_item) ==
    LET m == Search(ReIF, rest_of_item)
    IN  IF m.alt # 0
        THEN <<"I", "F", ":", " ">>
             \o SubSeq(rest_of_item,
                       RunEnd(Star(Whitespace), rest_of_item, m.start + Len(IFMarker)) + 1, m.end)
        ELSE <<>>

\* the dict appended for an item whose stripped text is text, under type cur
Record(text, cur) ==
    LET st           == Scan(text, ScanStart(text))
        args         == st.args
        newpub       == is_newpub(text)
        title_tex    == IF newpub THEN args[2] ELSE args[1]
        authors_tex  == IF newpub THEN args[1] ELSE args[2]
        journal_tex  == args[3]
        rest_of_item == Slice(text, st.scan_idx)
        journal_info == clean_tex(journal_tex)
    IN  [year    |-> year_of(journal_info, rest_of_item),
         title   |-> clean_tex(title_tex),
         authors |-> clean_tex(authors_tex),
         venue   |-> journal_info,
         doi     |-> doi_of(rest_of_item),
         note    |-> note_of(rest_of_item),
         type    |-> cur]

ArgsOf(text) == Scan(text, ScanStart(text)).args

InLoop == parse_pc = "loop" /\ item_idx < Len(raw_items)

\* line 68: `if not raw_item: continue`
SkipEmpty ==
    /\ InLoop
    /\ Stripped(raw_items[item_idx + 1]) = <<>>
    /\ item_idx' = item_idx + 1
    /\ UNCHANGED <<raw_items, current_type, publications, origin, parse_pc>>
    /\ UNCHANGED <<scan_vars, tex_vars, maint_vars, scrape_vars>>

\* SkipMalformed with `break` in place of `continue`: the run ends at the
\* first malformed item
SkipMalformed_Abort ==
    /\ InLoop
    /\ LET text == Stripped(raw_items[item_idx + 1])
       IN  text # <<>> /\ Len(ArgsOf(text)) < 3
    /\ current_type' = next_type(raw_items[item_idx + 1], current_type)
    /\ parse_pc' = "done"
    /\ UNCHANGED <<raw_items, item_idx, publications, origin>>
    /\ UNCHANGED <<scan_vars, tex_vars, maint_vars, scrape_vars>>

\* lines 118-121: fewer than 3 arguments
SkipMalformed ==
    /\ InLoop
    /\ LET text == Stripped(raw_items[item_idx + 1])
       IN  text # <<>> /\ Len(ArgsOf(text)) < 3
    /\ current_type' = next_type(raw_items[item_idx + 1], current_type)
    /\ item_idx' = item_idx + 1
    /\ UNCHANGED <<raw_items, publications, origin, parse_pc>>
    /\ UNCHANGED <<scan_vars, tex_vars, maint_vars, scrape_vars>>

\* lines 123-186: build and append the record, then advance the type
AppendRecord ==
    /\ InLoop
    /\ LET text == Stripped(raw_items[item_idx + 1])
       IN  /\ text # <<>>
           /\ Len(ArgsOf(text)) >= 3
           /\ publications' = Append(publications, Record(text, current_type))
    /\ origin' = Append(origin, item_idx + 1)
    /\ current_type' = next_type(raw_items[item_idx + 1], current_type)
    /\ item_idx' = item_idx + 1
    /\ UNCHANGED <<raw_items, parse_pc>>
    /\ UNCHANGED <<scan_vars, tex_vars, maint_vars, scrape_vars>>

\* line 188: return publications
Return ==
    /\ parse_pc = "loop"
    /\ item_idx = Len(raw_items)
    /\ parse_pc' = "done"
    /\ UNCHANGED <<raw_items, item_idx, current_type, publications, origin>>
    /\ UNCHANGED <<scan_vars, tex_vars, maint_vars, scrape_vars>>

ParseNext == SkipEmpty \/ SkipMalformed \/ AppendRecord \/ Return

(***************************************************************************)
(* Inputs of the item loop.  An item is the text between two \item marks;  *)
(* it never contains \item nor an unescaped %.                             *)
(***************************************************************************)
MaxItems == 3

\* \mypub{ A  {N}<nl>T }{{\it J} D}{\textsl C (2020)}
TitleFirstItem ==
    <<"\\", "m", "y", "p", "u", "b", "{", " ", "A", " ", " ", "{", "N", "}", "\n", "T", " ", "}",
      "{", "{", "\\", "i", "t", " ", "J", "}", " ", "D", "}",
      "{", "\\", "t", "e", "x", "t", "s", "l", " ", "C", " ", "(", "2", "0", "2", "0", ")", "}">>

\* \newpub{J$^*$ D}{\bf  T}{V, accepted} doi:10.1/x} IF: 3.2
AuthorsFirstItem ==
    <<"\\", "n", "e", "w", "p", "u", "b", "{", "J", "$", "^", "*", "$", " ", "D", "}",
      "{", "\\", "b", "f", " ", " ", "T", "}", "{", "V", ",", " ", "a", "c", "c", "e", "p", "t", "e", "d", "}",
      " ", "d", "o", "i", ":", "1", "0", ".", "1", "/", "x", "}", " ", "I", "F", ":", " ", "3", ".", "2">>

\* \mypub{T}{A}
TwoArgItem == <<"\\", "m", "y", "p", "u", "b", "{", "T", "}", "{", "A", "}">>

BlankItem == <<"\n">>

\* the section header as the bibliography writes it after the last journal item
HeaderBlock == <<"\n">> \o Vspace \o Hspace \o HeaderLabel \o <<"\n">>

ItemBodies == {TitleFirstItem, AuthorsFirstItem, TwoArgItem, BlankItem}

ItemPool == {<<" ">> \o b \o t : b \in ItemBodies, t \in {<<"\n">>, HeaderBlock}}

SeqsUpTo(S, n) == UNION {[1..k -> S] : k \in 0..n}

ParseIdle ==
    /\ raw_items = <<>>
    /\ item_idx = 0
    /\ current_type = "journal"
    /\ publications = <<>>
    /\ origin = <<>>
    /\ parse_pc = "done"

ScanIdle == scan_text = <<>> /\ scan_out = Pending

TexIdle == tex_in = <<>> /\ tex_once = Pending /\ tex_twice = Pending

MaintIdle == json_file = <<>> /\ maint_log = <<>>

ScrapeIdle == page = <<>> /\ items = Pending

\* lines 50-51, with the item list drawn from pool
ParseInit(pool, n) ==
    /\ raw_items \in SeqsUpTo(pool, n)
    /\ item_idx = 0
    /\ current_type = "journal"
    /\ publications = <<>>
    /\ origin = <<>>
    /\ parse_pc = "loop"
    /\ ScanIdle /\ TexIdle /\ MaintIdle /\ ScrapeIdle

Init == ParseInit(ItemPool, MaxItems)

Next == ParseNext

Spec == Init /\ [][Next]_vars

(***************************************************************************)
(* Properties of the item loop                                             *)
(***************************************************************************)
\* the item a record was built from, and its text as the loop parsed it
ItemOf(k) == raw_items[origin[k]]

TextOf(k) == Stripped(ItemOf(k))

HeaderBefore(i) == \E j \in 1..(i - 1) : HasHeader(raw_items[j])

\* C1: a record carries type "book" exactly when some item before its own
\* item contains the section-header marker, whatever that earlier item
\* produced (a record, nothing because malformed, nothing because empty once
\* the header is stripped); a header item's own record keeps the type that
\* was current before it, and records before the first header are "journal".
C1_TypeFollowsHeader ==
    \A k \in 1..Len(publications) :
        publications[k].type = IF HeaderBefore(origin[k]) THEN "book" ELSE "journal"

\* items with at least 3 closed top-level arguments among the first n
WellFormed(i) == Len(ArgsOf(Stripped(raw_items[i]))) >= 3

WellFormedUpTo(n) == {i \in 1..n : WellFormed(i)}

\* the fields of a record other than the section type
Fields(r) == [year |-> r.year, title |-> r.title, authors |-> r.authors,
              venue |-> r.venue, doi |-> r.doi, note |-> r.note]

\* C2: when the run returns, the list holds exactly one record per item with
\* at least 3 closed arguments, in file order, none for the other items, and
\* each record's fields other than type are those its own item yields alone.
C2_MalformedSkipped ==
    parse_pc = "done" /\ raw_items # <<>> =>
        /\ Len(publications) = Cardinality(WellFormedUpTo(Len(raw_items)))
        /\ \A k \in 1..Len(publications) : WellFormed(origin[k])
        /\ \A k \in 1..(Len(publications) - 1) : origin[k] < origin[k + 1]
        /\ \A k \in 1..Len(publications) :
              Fields(publications[k]) = Fields(Record(TextOf(k), "journal"))

\* a run that returned a record for a well-formed item that follows a
\* malformed (2-argument) item
C2_Witness ==
    /\ parse_pc = "done"
    /\ \E k \in 1..Len(publications) :
          \E j \in 1..(origin[k] - 1) :
              /\ Stripped(raw_items[j]) # <<>>
              /\ Len(ArgsOf(Stripped(raw_items[j]))) = 2

TextFields(r) == {r.title, r.authors, r.venue}

\* C6: title, authors and venue of every record hold no brace, no backslash,
\* no run of two or more whitespace characters and no whitespace at either
\* end.
C6_FieldsArePlainText ==
    \A k \in 1..Len(publications) :
        \A f \in TextFields(publications[k]) :
            /\ \A n \in 1..Len(f) : f[n] \notin {"{", "}", "\\"}
            /\ \A n \in 1..(Len(f) - 1) : ~(f[n] \in Whitespace /\ f[n + 1] \in Whitespace)
            /\ f # <<>> => f[1] \notin Whitespace /\ f[Len(f)] \notin Whitespace

\* a record whose raw title argument holds braces and a whitespace run and
\* whose raw venue argument starts with a control sequence
C6_Witness ==
    \E k \in 1..Len(publications) :
        LET args == ArgsOf(TextOf(k))
        IN  /\ \E n \in 1..(Len(args[1]) - 1) :
                  args[1][n] \in Whitespace /\ args[1][n + 1] \in Whitespace
            /\ \E n \in 1..Len(args[1]) : args[1][n] = "{"
            /\ args[3] # <<>> /\ args[3][1] = "\\"

(***************************************************************************)
(* Macro recognition: items that differ in the macro used, in what         *)
(* precedes it and in what follows the three arguments.                    *)
(***************************************************************************)
MaxFieldItems == 1

MacroHeads == {<<>>,
               <<"\\", "m", "y", "p", "u", "b">>,
               <<"\\", "m", "y", "b", "p", "u", "b">>,
               <<"\\", "n", "e", "w", "p", "u", "b">>,
               <<"\\", "p", "u", "b">>,
               <<"\\", "n", "p", "u", "b">>}

MacroPres == {<<>>, <<"{", "z", "}">>}

MacroPosts == {<<>>,
               <<"\\", "n", "e", "w", "p", "u", "b", "{", "q", "}">>,
               <<"\\", "p", "u", "b", "{", "q", "}">>}

ThreeArgs == <<"{", "x", "}", "{", "y", "}", "{", "v", "}">>

MacroPool ==
    {<<" ">> \o pre \o h \o ThreeArgs \o post :
        pre \in MacroPres, h \in MacroHeads, post \in MacroPosts}
    \cup {TwoArgItem, BlankItem}

InitMacro == ParseInit(MacroPool, MaxFieldItems)

SpecMacro == InitMacro /\ [][Next]_vars

MacroNames == {<<"\\", "m", "y", "p", "u", "b">>,
               <<"\\", "m", "y", "b", "p", "u", "b">>,
               <<"\\", "n", "e", "w", "p", "u", "b">>,
               <<"\\", "p", "u", "b">>}

AuthorsFirstName == <<"\\", "n", "e", "w", "p", "u", "b">>

\* offsets where some macro name occurs
MacroOffsets(text) == {i \in 0..Len(text) : \E nm \in MacroNames : StartsAt(text, nm, i)}

\* the leftmost macro name of text, <<>> when none occurs
FirstMacro(text) ==
    IF MacroOffsets(text) = {} THEN <<>>
    ELSE CHOOSE nm \in MacroNames : StartsAt(text, nm, Least(MacroOffsets(text)))

\* the offset right after the leftmost macro name, 0 when none occurs
AfterFirstMacro(text) ==
    IF MacroOffsets(text) = {} THEN 0
    ELSE Least(MacroOffsets(text)) + Len(FirstMacro(text))

ArgsAfterMacro(text) == Scan(text, AfterFirstMacro(text)).args

Processed(i) == i \in 1..item_idx

HasRecord(i) == \E k \in 1..Len(publications) : origin[k] = i

\* C4: the arguments of a record are those scanned from right after the
\* leftmost macro name of its item (from offset 0 when the item has none);
\* with \newpub leftmost, args[0] is authors and args[1] is title, otherwise
\* (another macro or none) args[0] is title and args[1] is authors; args[2]
\* is the venue; and an item that yields 3 arguments from there gets a
\* record whether or not it has a macro.
C4_FirstMacroDecides ==
    /\ \A k \in 1..Len(publications) :
          LET args == ArgsAfterMacro(TextOf(k))
              af   == FirstMacro(TextOf(k)) = AuthorsFirstName
          IN  /\ Len(args) = 3
              /\ publications[k].title = clean_tex(IF af THEN args[2] ELSE args[1])
              /\ publications[k].authors = clean_tex(IF af THEN args[1] ELSE args[2])
              /\ publications[k].venue = clean_tex(args[3])
    /\ \A i \in 1..Len(raw_items) :
          Processed(i) /\ Len(ArgsAfterMacro(Stripped(raw_items[i]))) = 3 => HasRecord(i)

\* a record for an item that has a brace group before \newpub and another
\* macro after the arguments
C4_Witness ==
    \E k \in 1..Len(publications) :
        /\ FirstMacro(TextOf(k)) = AuthorsFirstName
        /\ Least(MacroOffsets(TextOf(k))) > 0
        /\ Cardinality(MacroOffsets(TextOf(k))) > 1

\* a record for an item without any macro
C4_NoMacroWitness ==
    \E k \in 1..Len(publications) : MacroOffsets(TextOf(k)) = {}

(***************************************************************************)
(* Field extraction: items \pub{t}{a}{venue}tail over venues and tails     *)
(* with and without parenthesized years, acceptance words and doi markers. *)
(***************************************************************************)
\* C (2020) | C (1999) (2020) | C | C, Accepted | In Press | accepted (0000) | C ({2020}) | in press (2024)
FieldVenues ==
    {<<"C", " ", "(", "2", "0", "2", "0", ")">>,
     <<"C", " ", "(", "1", "9", "9", "9", ")", " ", "(", "2", "0", "2", "0", ")">>,
     <<"C">>,
     <<"C", ",", " ", "A", "c", "c", "e", "p", "t", "e", "d">>,
     <<"I", "n", " ", "P", "r", "e", "s", "s">>,
     <<"a", "c", "c", "e", "p", "t", "e", "d", " ", "(", "0", "0", "0", "0", ")">>,
     <<"C", " ", "(", "{", "2", "0", "2", "0", "}", ")">>,
     <<"i", "n", " ", "p", "r", "e", "s", "s", " ", "(", "2", "0", "2", "4", ")">>}

\* (empty) |  (2021) |  (0000) |  (2018) doi:10.1/x |  DOI: 10.1/x} |  doi:x}} |  doi: |  Doi:<nl> y} doi:z (2022) |  doi:} | doi: IF: 3.2
FieldTails ==
    {<<>>,
     <<" ", "(", "2", "0", "2", "1", ")">>,
     <<" ", "(", "0", "0", "0", "0", ")">>,
     <<" ", "(", "2", "0", "1", "8", ")", " ", "d", "o", "i", ":", "1", "0", ".", "1", "/", "x">>,
     <<" ", "D", "O", "I", ":", " ", "1", "0", ".", "1", "/", "x", "}">>,
     <<" ", "d", "o", "i", ":", "x", "}", "}">>,
     <<" ", "d", "o", "i", ":">>,
     <<" ", "D", "o", "i", ":", "\n", " ", "y", "}", " ", "d", "o", "i", ":", "z", " ", "(", "2", "0", "2", "2", ")">>,
     <<" ", "d", "o", "i", ":", "}">>,
     <<"d", "o", "i", ":", " ", "I", "F", ":", " ", "3", ".", "2">>}


FieldPool ==
    {<<" ", "\\", "p", "u", "b", "{", "t", "}", "{", "a", "}", "{">> \o v \o <<"}">> \o t :
        v \in FieldVenues, t \in FieldTails}
    \cup {TwoArgItem, BlankItem}

InitFields == ParseInit(FieldPool, MaxFieldItems)

SpecFields == InitFields /\ [][Next]_vars

\* the tail of the item of record k: its text after the third argument
TailOf(k) == Slice(TextOf(k), Scan(TextOf(k), ScanStart(TextOf(k))).scan_idx)

\* a parenthesized 4-digit group starts at offset i of s
GroupAt(s, i) ==
    /\ i + 6 <= Len(s)
    /\ s[i + 1] = "(" /\ s[i + 6] = ")"
    /\ \A d \in 2..5 : s[i + d] \in Digits

Groups(s) == {i \in 0..Len(s) : GroupAt(s, i)}

\* the number written in the first group of s
FirstGroup(s) ==
    LET i == Least(Groups(s))
    IN  1000 * DigitVal(s[i + 2]) + 100 * DigitVal(s[i + 3])
        + 10 * DigitVal(s[i + 4]) + DigitVal(s[i + 5])

SaysAccepted(venue) == Contains(Lower(venue), Accepted) \/ Contains(Lower(venue), InPress)

\* the year the venue, else the tail, gives; 0 when neither has a group
YearFound(venue, tail) ==
    IF Groups(venue) # {} THEN FirstGroup(venue)
    ELSE IF Groups(tail) # {} THEN FirstGroup(tail)
    ELSE 0

\* C7 as stated: year is the first group of the venue if it has one, else the
\* first group of the tail if it has one, else 2025 if the venue says
\* accepted / in press, else 0 (the fallback never replaces a group found).
C7_YearAsStated ==
    \A k \in 1..Len(publications) :
        publications[k].year =
            IF Groups(publications[k].venue) # {} THEN FirstGroup(publications[k].venue)
            ELSE IF Groups(TailOf(k)) # {} THEN FirstGroup(TailOf(k))
            ELSE IF SaysAccepted(publications[k].venue) THEN FallbackYear
            ELSE 0

\* C7 amended: the year found is the first group of the venue, else the
\* first group of the tail, else 0; year is 2025 when the venue says
\* accepted / in press and the year found is 0 (no group, or the group
\* 0000), and the year found otherwise.
C7_YearWithZeroAsUnknown ==
    \A k \in 1..Len(publications) :
        LET found == YearFound(publications[k].venue, TailOf(k))
        IN  publications[k].year =
                IF SaysAccepted(publications[k].venue) /\ found = 0
                THEN FallbackYear
                ELSE found

\* a record whose venue says accepted, with a group in the tail only, and
\* whose year is that group
C7_Witness ==
    \E k \in 1..Len(publications) :
        /\ SaysAccepted(publications[k].venue)
        /\ Groups(publications[k].venue) = {}
        /\ Groups(TailOf(k)) # {}
        /\ publications[k].year = FirstGroup(TailOf(k))
        /\ publications[k].year # 0

\* offsets of the doi: marker in s, whatever the case of its letters
DoiMarks(s) == {i \in 0..Len(s) : StartsAt(Lower(s), DoiMarker, i)}

\* offsets after the first marker that hold a non-whitespace character
SolidAfterMark(s) ==
    {q \in (Least(DoiMarks(s)) + Len(DoiMarker))..(Len(s) - 1) : s[q + 1] \notin Whitespace}

\* the token after the first marker: the run of non-whitespace characters
\* that starts at the first non-whitespace character after the marker
TokenAfterMark(s) ==
    LET q == Least(SolidAfterMark(s))
        e == Least({j \in q..Len(s) : j = Len(s) \/ s[j + 1] \in Whitespace})
    IN  SubSeq(s, q + 1, e)

HasToken(s) == DoiMarks(s) # {} /\ SolidAfterMark(s) # {}

\* C8 as stated: doi is the token after the first doi: marker of the tail
\* with exactly one trailing "}" removed if it ends in one, and empty when
\* the tail has no marker.
C8_DoiAsStated ==
    \A k \in 1..Len(publications) :
        publications[k].doi =
            IF ~HasToken(TailOf(k)) THEN <<>>
            ELSE LET tok == TokenAfterMark(TailOf(k))
                 IN  IF tok[Len(tok)] = "}" THEN SubSeq(tok, 1, Len(tok) - 1) ELSE tok

\* C8 amended: doi is that token with all its trailing "}" removed (the
\* token is doi followed by "}" only, and doi does not end in "}"), and
\* empty when the tail has no marker followed by a token.
C8_DoiWithoutTrailingBraces ==
    \A k \in 1..Len(publications) :
        LET doi == publications[k].doi
        IN  IF ~HasToken(TailOf(k)) THEN doi = <<>>
            ELSE LET tok == TokenAfterMark(TailOf(k))
                 IN  /\ Len(doi) <= Len(tok)
                     /\ doi = SubSeq(tok, 1, Len(doi))
                     /\ \A n \in (Len(doi) + 1)..Len(tok) : tok[n] = "}"
                     /\ doi # <<>> => doi[Len(doi)] # "}"

\* a record whose doi token ends in two closing braces
C8_Witness ==
    \E k \in 1..Len(publications) :
        /\ HasToken(TailOf(k))
        /\ LET tok == TokenAfterMark(TailOf(k))
           IN  Len(tok) > 2 /\ tok[Len(tok)] = "}" /\ tok[Len(tok) - 1] = "}"
        /\ publications[k].doi # <<>>

(***************************************************************************)
(* clean_tex on its own, applied once and then to its own result, over     *)
(* every concatenation of a bounded number of pieces.                      *)
(***************************************************************************)
MaxTexPieces == 3

TexPieces == {<<"\\">>, <<"^">>, <<"*">>, <<"$">>, <<"{">>, <<"}">>, <<" ">>, <<"a">>, <<"1">>,
              <<"\\", "b", "f">>, <<"\\", "d", "a", "g", "g", "e", "r">>}

RECURSIVE Concat(_)
Concat(ps) == IF ps = <<>> THEN <<>> ELSE Head(ps) \o Concat(Tail(ps))

TexInitial ==
    /\ \E ps \in SeqsUpTo(TexPieces, MaxTexPieces) : tex_in = Concat(ps)
    /\ tex_once = Pending
    /\ tex_twice = Pending
    /\ ParseIdle /\ ScanIdle /\ MaintIdle /\ ScrapeIdle

CleanOnce ==
    /\ tex_once = Pending
    /\ tex_once' = Done(clean_tex(tex_in))
    /\ UNCHANGED <<tex_in, tex_twice, parse_vars, scan_vars, maint_vars, scrape_vars>>

CleanTwice ==
    /\ tex_once # Pending
    /\ tex_twice = Pending
    /\ tex_twice' = Done(clean_tex(tex_once[1]))
    /\ UNCHANGED <<tex_in, tex_once, parse_vars, scan_vars, maint_vars, scrape_vars>>

TexNext == CleanOnce \/ CleanTwice

SpecTex == TexInitial /\ [][TexNext]_vars

\* C5: clean_tex is idempotent: cleaning the cleaned text changes nothing.
C5_Idempotent == tex_twice # Pending => tex_twice = tex_once

(***************************************************************************)
(* clean_publications.py: the maintenance run over the stored record list. *)
(* json_file is the content of publications.json; maint_log keeps, for     *)
(* every run, what it read, what it printed and what it wrote.             *)
(***************************************************************************)
MaxPubs == 3

MaxRuns == 2

target_title_frag ==
    <<"T", "r", "a", "n", "s", "c", "r", "i", "p", "t", "i", "o", "n", "a", "l", " ", "d", "y",
      "n", "a", "m", "i", "c", "s", " ", "o", "f", " ", "C", "D", "8", "+", " ", "T", "-", "c",
      "e", "l", "l", " ", "e", "x", "h", "a", "u", "s", "t", "i", "o", "n">>

PatchedYear == 2025

\* line 14: target_title_frag.lower() in p['title'].lower()
IsTarget(p) ==
    LET title == Lower(p.title)
        frag  == Lower(target_title_frag)
    IN  Contains(title, frag)

\* lines 13-18: the update loop from record k on
RECURSIVE UpdateLoop(_, _, _)
UpdateLoop(pubs, k, updated_count) ==
    IF k > Len(pubs) THEN [pubs |-> pubs, updated_count |-> updated_count]
    ELSE IF IsTarget(pubs[k]) /\ pubs[k].year # PatchedYear
         THEN UpdateLoop([pubs EXCEPT ![k].year = PatchedYear], k + 1, updated_count + 1)
         ELSE UpdateLoop(pubs, k + 1, updated_count)

Dated(p) == p.year # 0

\* line 24: the records with a year
Pruned(pubs) == SelectSeq(pubs, Dated)

\* p put behind every record whose year is not smaller than its own
RECURSIVE InsertByYear(_, _)
InsertByYear(sorted, p) ==
    IF sorted = <<>> THEN <<p>>
    ELSE IF Head(sorted).year >= p.year
         THEN <<Head(sorted)>> \o InsertByYear(Tail(sorted), p)
         ELSE <<p>> \o sorted

\* the sort without reverse=True: ascending by year
RECURSIVE SortedByYear_Ascending(_)
SortedByYear_Ascending(pubs) ==
    IF pubs = <<>> THEN <<>>
    ELSE LET rest == SortedByYear_Ascending(Tail(pubs))
             before == SelectSeq(rest, LAMBDA q : q.year < Head(pubs).year)
             after  == SelectSeq(rest, LAMBDA q : q.year >= Head(pubs).year)
         IN  before \o <<Head(pubs)>> \o after

\* line 27: list.sort(key=year, reverse=True): descending by year, records
\* of one year keep their order
RECURSIVE SortedByYear(_)
SortedByYear(pubs) ==
    IF pubs = <<>> THEN <<>>
    ELSE InsertByYear(SortedByYear(SubSeq(pubs, 1, Len(pubs) - 1)), pubs[Len(pubs)])

\* the whole script: read, patch, prune, sort, report, write
RunClean ==
    /\ Len(maint_log) < MaxRuns
    /\ LET pubs       == json_file
           upd        == UpdateLoop(pubs, 1, 0)
           clean_pubs == SortedByYear(Pruned(upd.pubs))
       IN  /\ json_file' = clean_pubs
           /\ maint_log' = Append(maint_log,
                  [read           |-> pubs,
                   original_count |-> Len(pubs),
                   updated_count  |-> upd.updated_count,
                   final_count    |-> Len(clean_pubs),
                   removed        |-> Len(upd.pubs) - Len(clean_pubs),
                   written        |-> clean_pubs])
    /\ UNCHANGED <<parse_vars, scan_vars, tex_vars, scrape_vars>>

MaintNext == RunClean

\* stored records: the target title, the target in another case inside a
\* longer title, and a title that misses the fragment by one character
StoredTitles ==
    {target_title_frag,
     <<"O", "n", " ", "t", "h", "e", " ", "T", "R", "A", "N", "S", "C", "R", "I", "P", "T", "I",
       "O", "N", "A", "L", " ", "D", "y", "n", "a", "m", "i", "c", "s", " ", "o", "f", " ", "c",
       "d", "8", "+", " ", "t", "-", "c", "e", "l", "l", " ", "E", "x", "h", "a", "u", "s", "t",
       "i", "o", "n", ".">>,
     <<"T", "r", "a", "n", "s", "c", "r", "i", "p", "t", "i", "o", "n", "a", "l", " ", "d", "y",
       "n", "a", "m", "i", "c", "s", " ", "o", "f", " ", "C", "D", "8", "+", " ", "T", " ", "c",
       "e", "l", "l", " ", "e", "x", "h", "a", "u", "s", "t", "i", "o", "n">>}

StoredYears == {0, 2019, 2025, 2026}

StoredPubs ==
    {[year |-> y, title |-> t, authors |-> <<"A">>, venue |-> <<"V">>,
      doi |-> <<>>, note |-> <<>>, type |-> "journal"] : y \in StoredYears, t \in StoredTitles}

MaintInitial ==
    /\ json_file \in SeqsUpTo(StoredPubs, MaxPubs)
    /\ maint_log = <<>>
    /\ ParseIdle /\ ScanIdle /\ TexIdle /\ ScrapeIdle

SpecMaint == MaintInitial /\ [][MaintNext]_vars

\* p after step 1: year 2025 when the title contains the fragment
Patched(p) == IF IsTarget(p) THEN [p EXCEPT !.year = 2025] ELSE p

\* how many times r occurs in the list s
Count(s, r) == Cardinality({i \in 1..Len(s) : s[i] = r})

\* C9: every maintenance run (1) counts in updated_count the records with
\* the target fragment in the title and a year other than 2025, and gives
\* them year 2025; (2) writes exactly the records whose year after that is
\* not 0, otherwise unchanged, each as often as it was read; (3) writes them
\* in non-increasing order of year; (4) reports as removed the size read
\* minus the size written.  A run that reads the output of a previous run
\* writes it back unchanged and reports 0 updated and 0 removed.
C9_MaintenanceRun ==
    \A n \in 1..Len(maint_log) :
        LET inp == maint_log[n].read
            out == maint_log[n].written
            exp == SubSeq([i \in 1..Len(inp) |-> Patched(inp[i])], 1, Len(inp))
        IN  /\ maint_log[n].updated_count =
                   Cardinality({i \in 1..Len(inp) : IsTarget(inp[i]) /\ inp[i].year # 2025})
            /\ \A i \in 1..Len(out) : out[i].year # 0
            /\ \A i \in 1..Len(out) : Count(out, out[i]) = Count(exp, out[i])
            /\ \A i \in 1..Len(exp) : exp[i].year # 0 => Count(out, exp[i]) = Count(exp, exp[i])
            /\ \A i \in 1..(Len(out) - 1) : out[i].year >= out[i + 1].year
            /\ maint_log[n].removed = Len(inp) - Len(out)
            /\ n > 1 =>
                   /\ inp = maint_log[n - 1].written
                   /\ out = inp
                   /\ maint_log[n].updated_count = 0
                   /\ maint_log[n].removed = 0
            /\ n = Len(maint_log) => json_file = out

\* two runs, the first of which patched a record, removed a record and had
\* to reorder what it kept
C9_Witness ==
    /\ Len(maint_log) >= 2
    /\ maint_log[1].updated_count >= 1
    /\ maint_log[1].removed >= 1
    /\ Len(maint_log[1].written) >= 2
    /\ maint_log[1].written # Pruned(UpdateLoop(maint_log[1].read, 1, 0).pubs)

(***************************************************************************)
(* scrape_hchuang.py: scrape_publications.  page is the fetched document   *)
(* as the function walks it: the h2/h3 headers in order, each with its     *)
(* text and the li / p nodes of the containers that follow it; a node is   *)
(* its text and the href of its first link (empty when it has none).       *)
(* The curly quotes and the no-break space are the elements "ldquo",       *)
(* "rdquo" and "nbsp".                                                     *)
(***************************************************************************)
MaxSections == 2

\* unicodedata.normalize("NFKC", text) on the characters of the pages
NFKC(text) == [k \in 1..Len(text) |-> IF text[k] = "nbsp" THEN " " ELSE text[k]]

clean_text(text) == Strip(NFKC(text))

target_sections ==
    <<<<"S", "e", "l", "e", "c", "t", "e", "d", " ", "J", "o", "u", "r", "n", "a", "l", " ", "P", "a",
  "p", "e", "r", "s">>,
      <<"S", "e", "l", "e", "c", "t", "e", "d", " ", "C", "o", "n", "f", "e", "r", "e", "n", "c",
        "e", " ", "P", "r", "o", "c", "e", "e", "d", "i", "n", "g", "s">>>>

JournalWord == <<"J", "o", "u", "r", "n", "a", "l">>

ConferenceWord == <<"C", "o", "n", "f", "e", "r", "e", "n", "c", "e">>

\* line 204
IsTargetSection(header_text) ==
    \E n \in 1..Len(target_sections) : Contains(header_text, target_sections[n])

\* line 205
venue_type(header_text) ==
    IF Contains(header_text, JournalWord) THEN JournalWord ELSE ConferenceWord

ReNumber      == << <<Plus(Digits), One({"."})>> >>
ReNumberSpace == << <<Plus(Digits), One({"."}), Star(Whitespace)>> >>

\* line 233: re.match(r"^\d+\.", text)
Numbered(text) == MatchesAt(ReNumber, text, 0)

\* line 237: re.sub(r"^\d+\.\s*", "", text)
Unnumbered(text) ==
    IF MatchesAt(ReNumberSpace, text, 0)
    THEN Slice(text, EndAt(ReNumberSpace, text, 0))
    ELSE text

\* \b(19|20)\d{2}\b matches at offset i
BareYearAt(text, i) ==
    /\ i + 4 <= Len(text)
    /\ StartsAt(text, <<"1", "9">>, i) \/ StartsAt(text, <<"2", "0">>, i)
    /\ text[i + 3] \in Digits /\ text[i + 4] \in Digits
    /\ i = 0 \/ text[i] \notin WordChars
    /\ i + 4 = Len(text) \/ text[i + 5] \notin WordChars

\* lines 243-250
scraped_year(text) ==
    IF HasYear(text) THEN YearIn(text)
    ELSE LET hits == {i \in 0..Len(text) : BareYearAt(text, i)}
         IN  IF hits = {} THEN 0
             ELSE IntOf(SubSeq(text, Least(hits) + 1, Least(hits) + 4))

DoiHost == <<"d", "o", "i", ".", "o", "r", "g">>

\* lines 253-256
scraped_doi(node) == IF Contains(node.href, DoiHost) THEN node.href ELSE <<>>

ReCurlyQuoted    == << <<One({"ldquo"}), PlusNot({"rdquo"}), One({"rdquo"})>> >>
ReStraightQuoted == << <<One({"\""}), PlusNot({"\""}), One({"\""})>> >>

\* lines 260-263
scraped_title(text) ==
    LET curly    == Search(ReCurlyQuoted, text)
        straight == Search(ReStraightQuoted, text)
    IN  IF curly.alt # 0 THEN SubSeq(text, curly.start + 2, curly.end - 1)
        ELSE IF straight.alt # 0 THEN SubSeq(text, straight.start + 2, straight.end - 1)
        ELSE text

\* text.split(sep)[0]
BeforeFirst(text, sep) ==
    IF FindFrom(text, <<sep>>, 0) = -1 THEN text
    ELSE SubSeq(text, 1, FindFrom(text, <<sep>>, 0))

\* lines 266-267
scraped_authors(text) ==
    LET head == IF Contains(text, <<"ldquo">>) THEN BeforeFirst(text, "ldquo")
                ELSE BeforeFirst(text, "\"")
    IN  StripChars(StripChars(Strip(head), {","}), {"."})

AuthorsShown == 50

\* lines 269-276: the record of one numbered node
ScrapedItem(node, text, venue) ==
    LET authors == scraped_authors(text)
    IN  [year    |-> scraped_year(text),
         authors |-> IF Len(authors) > AuthorsShown
                     THEN Prefix(authors, AuthorsShown) \o <<".", ".", ".">>
                     ELSE authors,
         title   |-> scraped_title(text),
         venue   |-> venue,
         doi     |-> scraped_doi(node),
         note    |-> <<>>]

\* lines 228-276: the nodes under one header
RECURSIVE ScrapeNodes(_, _, _)
ScrapeNodes(nodes, venue, acc) ==
    IF nodes = <<>> THEN acc
    ELSE LET text == clean_text(Head(nodes).text)
         IN  ScrapeNodes(Tail(nodes), venue,
                 IF Numbered(text)
                 THEN Append(acc, ScrapedItem(Head(nodes), Unnumbered(text), venue))
                 ELSE acc)

\* lines 202-278: the headers of the page
RECURSIVE ScrapeSections(_, _)
ScrapeSections(sections, acc) ==
    IF sections = <<>> THEN acc
    ELSE ScrapeSections(Tail(sections),
             IF IsTargetSection(Head(sections).header_text)
             THEN ScrapeNodes(Head(sections).nodes, venue_type(Head(sections).header_text), acc)
             ELSE acc)

scrape_publications(doc) == ScrapeSections(doc, <<>>)

ScrapePublications ==
    /\ items = Pending
    /\ items' = Done(scrape_publications(page))
    /\ UNCHANGED <<page, parse_vars, scan_vars, tex_vars, maint_vars>>

DoiLink == <<"h", "t", "t", "p", "s", ":", "/", "/", "d", "o", "i", ".", "o", "r", "g", "/", "1", "0", ".",
  "1", "/", "x">>

OtherLink == <<"h", "t", "t", "p", ":", "/", "/", "a", ".", "b", "/", "c">>

NodeQuoted ==
    [text |->
        <<"nbsp", "1", ".", " ", "A", ".", " ", "L", "e", "e", ",", " ", "B", ".", " ", "W", "u",
          ".", " ", "ldquo", "T", " ", "o", "n", "e", ".", "rdquo", " ", "J", " ", "(", "2", "0",
          "2", "0", ")", ".", " ">>,
     href |-> DoiLink]

NodeStraight == [text |-> <<"2", ".", "A", ",", " ", "\"", "T", "2", "\"", " ", "N", " ", "2", "0", "1", "9">>, href |-> <<>>]

NodePlain == [text |-> <<"I", "n", "t", "r", "o", " ", "2", "0", "2", "0">>, href |-> OtherLink]

NodeManyAuthors ==
    [text |->
        <<"3", ".", " ", "A", "u", "t", "h", "o", "r", "1", " ", "X", ",", " ", "A", "u", "t", "h",
          "o", "r", "2", " ", "X", ",", " ", "A", "u", "t", "h", "o", "r", "3", " ", "X", ",", " ",
          "A", "u", "t", "h", "o", "r", "4", " ", "X", ",", " ", "A", "u", "t", "h", "o", "r", "5",
          " ", "X", ",", " ", "A", "u", "t", "h", "o", "r", "6", " ", "X", ",", " ", "A", "u", "t",
          "h", "o", "r", "7", " ", "X", ".", " ", "\"", "T", "\"", " ", "1", "2", "0", "1", "9",
          " ", "(", "1", "9", ")">>,
     href |-> OtherLink]

NodeNoYear == [text |-> <<" ", "1", "2", ".", " ", "X", ",", " ", "Y", ".", " ", "Z", " ", "1", "8", "5", "0">>, href |-> <<>>]

SectionPool ==
    {[header_text |-> target_sections[1], nodes |-> <<NodeQuoted, NodePlain>>],
     [header_text |-> target_sections[2], nodes |-> <<NodeStraight, NodeManyAuthors>>],
     [header_text |-> target_sections[1] \o <<" ", "2">>, nodes |-> <<NodeNoYear>>],
     [header_text |-> target_sections[2], nodes |-> <<>>],
     [header_text |-> <<"M", "e", "m", "b", "e", "r", "s">>, nodes |-> <<NodeQuoted>>]}

\* both producers: the parser over a list of items, the scraper over a page
ProducersInitial ==
    /\ raw_items \in SeqsUpTo(ItemPool, MaxFieldItems)
    /\ item_idx = 0
    /\ current_type = "journal"
    /\ publications = <<>>
    /\ origin = <<>>
    /\ parse_pc = "loop"
    /\ page \in SeqsUpTo(SectionPool, MaxSections)
    /\ items = Pending
    /\ ScanIdle /\ TexIdle /\ MaintIdle

ProducersNext == ParseNext \/ ScrapePublications

SpecScrape == ProducersInitial /\ [][ProducersNext]_vars

RecordFields == {"year", "title", "authors", "venue", "doi", "note", "type"}

RecordTypes == {"journal", "book", "conference"}

IsText(x) == DOMAIN x = 1..Len(x)

Shaped(r) ==
    /\ DOMAIN r = RecordFields
    /\ r.type \in RecordTypes
    /\ IsText(r.doi)
    /\ IsText(r.note)

\* C10: every record either producer emits has exactly the fields year,
\* title, authors, venue, doi, note and type, with type one of journal,
\* book, conference and doi and note strings (empty when absent).
C10_SameShape ==
    /\ \A k \in 1..Len(publications) : Shaped(publications[k])
    /\ items # Pending => \A k \in 1..Len(items[1]) : Shaped(items[1][k])

(***************************************************************************)
(* The brace scan on its own (lines 72-116), over every text of bounded    *)
(* length on a small alphabet, started at offset 0 (the text is what       *)
(* follows the macro name).                                                *)
(***************************************************************************)
MaxScanLen == 8

ScanAlphabet == {"{", "}", "a", " "}

ScanInitial ==
    /\ scan_text \in SeqsUpTo(ScanAlphabet, MaxScanLen)
    /\ scan_out = Pending
    /\ ParseIdle /\ TexIdle /\ MaintIdle /\ ScrapeIdle

ApplyScan ==
    /\ scan_out = Pending
    /\ scan_out' = Done(Scan(scan_text, 0))
    /\ UNCHANGED <<scan_text, parse_vars, tex_vars, maint_vars, scrape_vars>>

ScanNext == ApplyScan

SpecScan == ScanInitial /\ [][ScanNext]_vars

\* brace depth after the first p characters of s
DepthAt(s, p) ==
    Cardinality({q \in 1..p : s[q] = "{"}) - Cardinality({q \in 1..p : s[q] = "}"})

Balanced(s) ==
    /\ \A p \in 1..Len(s) : DepthAt(s, p) >= 0
    /\ DepthAt(s, Len(s)) = 0

\* positions (1-based) of the braces that open a top-level group
Opens(s) == {p \in 1..Len(s) : s[p] = "{" /\ DepthAt(s, p - 1) = 0}

NthOpen(s, n) == CHOOSE p \in Opens(s) : Cardinality({q \in Opens(s) : q < p}) = n - 1

\* position of the brace that closes the group opened at p
CloseOf(s, p) == Least({q \in (p + 1)..Len(s) : DepthAt(s, q) = 0})

\* t without its leading and trailing whitespace
Trimmed(t) ==
    LET solid == {k \in 1..Len(t) : t[k] \notin Whitespace}
    IN  IF solid = {} THEN <<>>
        ELSE SubSeq(t, Least(solid), CHOOSE k \in solid : \A j \in solid : j <= k)

GroupText(s, n) == Trimmed(SubSeq(s, NthOpen(s, n) + 1, CloseOf(s, NthOpen(s, n)) - 1))

ThreeGroups(s) == Balanced(s) /\ Cardinality(Opens(s)) >= 3

\* C3: on balanced text with at least 3 top-level groups the scan returns
\* exactly the contents of the first three groups (outer braces removed,
\* outer whitespace trimmed, inner braces kept, text between groups ignored)
\* and stops right after the brace closing the third group, so the tail is
\* the text from the first character after that brace.
C3_ScanTakesThreeGroups ==
    scan_out # Pending /\ ThreeGroups(scan_text) =>
        /\ scan_out[1].args = <<GroupText(scan_text, 1), GroupText(scan_text, 2),
                                GroupText(scan_text, 3)>>
        /\ scan_out[1].scan_idx = CloseOf(scan_text, NthOpen(scan_text, 3))
        /\ Slice(scan_text, scan_out[1].scan_idx)
             = SubSeq(scan_text, CloseOf(scan_text, NthOpen(scan_text, 3)) + 1, Len(scan_text))

\* a scanned text with three groups, one of which holds a nested brace pair
C3_Witness ==
    /\ scan_out # Pending
    /\ ThreeGroups(scan_text)
    /\ \E n \in 1..3 : \E k \in 1..Len(scan_out[1].args[n]) : scan_out[1].args[n][k] = "{"

(***************************************************************************)
(* The parser on one item whose braces need not match: a macro name or     *)
(* none, followed by every concatenation of a bounded number of brace      *)
(* pieces.                                                                 *)
(***************************************************************************)
MaxBracePieces == 5

BracePieces == {<<"{">>, <<"}">>, <<"{", "a", "}">>}

PubMacro == <<"\\", "p", "u", "b">>

BraceItems ==
    {m \o Concat(ps) : m \in {<<>>, PubMacro}, ps \in SeqsUpTo(BracePieces, MaxBracePieces)}

\* lines 50-51, with a single item
InitBraces ==
    /\ \E item \in BraceItems : raw_items = <<item>>
    /\ item_idx = 0
    /\ current_type = "journal"
    /\ publications = <<>>
    /\ origin = <<>>
    /\ parse_pc = "loop"
    /\ ScanIdle /\ TexIdle /\ MaintIdle /\ ScrapeIdle

SpecBraces == InitBraces /\ [][Next]_vars

\* the text of item i that the scan reads: from the end of the macro name on
Scanned(i) ==
    LET text == Stripped(raw_items[i])
    IN  Slice(text, ScanStart(text))

\* top-level groups of s closed within its first p characters
ClosedGroups(s, p) == Cardinality({q \in 1..p : s[q] = "}" /\ DepthAt(s, q) = 0})

\* a "}" with nothing open, before or between the first three groups
StrayClose(s) ==
    \E p \in 1..Len(s) :
        /\ s[p] = "}"
        /\ DepthAt(s, p - 1) = 0
        /\ \A q \in 1..(p - 1) : DepthAt(s, q) >= 0
        /\ ClosedGroups(s, p - 1) < 3

\* a "{" that is never closed, before the third group is complete
Unclosed(s) ==
    /\ \A q \in 1..Len(s) : DepthAt(s, q) >= 0
    /\ DepthAt(s, Len(s)) > 0
    /\ ClosedGroups(s, Len(s)) < 3

\* C11: an item with an unclosed "{" or with a stray "}" before or between
\* its argument groups yields fewer than 3 arguments and no record, and no
\* record is built from an argument whose own braces are unbalanced.
C11_UnbalancedSkipped ==
    /\ \A i \in 1..item_idx :
           StrayClose(Scanned(i)) \/ Unclosed(Scanned(i)) =>
               /\ Len(ArgsOf(Stripped(raw_items[i]))) < 3
               /\ \A k \in 1..Len(origin) : origin[k] # i
    /\ \A k \in 1..Len(publications) :
           \A n \in 1..3 : Balanced(ArgsOf(TextOf(k))[n])

(***************************************************************************)
(* Items that hold the section header: as the file writes it, as the bare  *)
(* label, and wrapped in other ways, placed before the macro, inside each  *)
(* of the three arguments, or after them.                                  *)
(***************************************************************************)
HeaderNoColon == <<"{", "\\", "b", "f", " ", "B", "o", "o", "k", "s", " ", "\\", "&", " ", "C", "h", "a", "p", "t", "e", "r", "s", "}">>

HeaderTextbf == <<"\\", "t", "e", "x", "t", "b", "f", "{", "B", "o", "o", "k", "s", " ", "\\", "&", " ", "C", "h", "a", "p", "t", "e", "r", "s", ":", "}">>

HeaderWraps == {HeaderBlock, HeaderLabel, HeaderNoColon, HeaderTextbf, HeaderMarker}

HeaderMacros == {<<"\\", "m", "y", "p", "u", "b">>, <<"\\", "n", "e", "w", "p", "u", "b">>}

\* one item: macro m, wrapped header w at place n (0: no header, 1: before
\* the macro, 2-4: inside an argument, 5: after the arguments)
HeaderItem(m, w, n) ==
    <<" ">> \o (IF n = 1 THEN w ELSE <<>>) \o m
            \o <<"{", "T">> \o (IF n = 2 THEN w ELSE <<>>) \o <<"}">>
            \o <<"{", "A">> \o (IF n = 3 THEN w ELSE <<>>) \o <<"}">>
            \o <<"{", "V">> \o (IF n = 4 THEN w ELSE <<>>) \o <<"}">>
            \o (IF n = 5 THEN w ELSE <<>>) \o <<"\n">>

HeaderPool ==
    {HeaderItem(m, w, n) : m \in HeaderMacros, w \in HeaderWraps, n \in 0..5}
    \cup {TwoArgItem, BlankItem, <<" ">> \o HeaderBlock}

InitHeader == ParseInit(HeaderPool, MaxFieldItems)

SpecHeader == InitHeader /\ [][Next]_vars

\* the header text as it reads once clean_tex has removed the backslash
HeaderText == <<"B", "o", "o", "k", "s", " ", "&", " ", "C", "h", "a", "p", "t", "e", "r", "s">>

\* C12: when the item of a record contains the section-header marker, the
\* record's title, authors and venue do not contain the header text
\* "Books & Chapters", wherever in the item the header stands and however
\* it is wrapped.
C12_HeaderNeverLeaks ==
    \A k \in 1..Len(publications) :
        HasHeader(ItemOf(k)) =>
            \A f \in TextFields(publications[k]) : ~Contains(f, HeaderText)

====
